---- MODULE Spec2Model ----
(***************************************************************************)
(* Receipt image generators of kenjisciometa/receipt-scanner:              *)
(*   generate_test_receipt_fi.py, _de.py, _sv.py, _v2.py, _v3.py           *)
(* Each script is a straight-line program: load three fonts (with a bare   *)
(* except falling back to the built-in font), draw text rows and table     *)
(* grids at a running cursor y_position, save the image, print a message.  *)
(*                                                                         *)
(* Money is an integer in units of 1/10000 euro, so that subtotal * rate   *)
(* (rates are whole percents, prices whole cents) is exact.  A value that  *)
(* has been formatted with :.2f is an integer number of cents.            *)
(***************************************************************************)
EXTENDS Integers, Sequences, FiniteSets, TLC

VARIABLES script, pc, fonts, y_position, table_y_start, cursor_writes,
          ops, font_error, save_calls, saved, printed, status, run,
          prev_ops, prev_font_error

vars == <<script, pc, fonts, y_position, table_y_start, cursor_writes,
          ops, font_error, save_calls, saved, printed, status, run,
          prev_ops, prev_font_error>>

Scripts == {"fi", "de", "sv", "v2", "v3"}

\* Number of times a script is run in one behaviour.
MaxRuns == 2

----------------------------------------------------------------------------
\* Canvas

WIDTH == 400

HEIGHT(s) == CASE s = "v3" -> 650
               [] s = "v2" -> 600
               [] OTHER    -> 550

BG_COLOR == <<255, 255, 255>>

TEXT_COLOR == <<0, 0, 0>>

----------------------------------------------------------------------------
\* Fonts

unset == [path |-> "unset", size |-> 0]

truetype(size) == [path |-> "/System/Library/Fonts/Helvetica.ttc", size |-> size]

load_default == [path |-> "default", size |-> 0]

no_fonts == [font_large |-> unset, font_medium |-> unset, font_small |-> unset]

\* A fallback that rebinds only the names the try block did not reach.
except_fonts_keep_loaded(f) ==
    [n \in DOMAIN f |-> IF f[n] = unset THEN load_default ELSE f[n]]

\* The except block: all three names are rebound to the built-in font.
except_fonts(f) == [n \in DOMAIN f |-> load_default]

\* Pixel height of a glyph row: the requested size of a TrueType font; the
\* built-in font of load_default() is at most 11 pixels tall.
FontHeight(f) == IF f.path = "default" THEN 11 ELSE f.size

----------------------------------------------------------------------------
\* Arithmetic

\* A price literal such as 2.50, given in cents.
Eur(cents) == cents * 100

Abs(a) == IF a < 0 THEN 0 - a ELSE a

\* The rate of the other bucket (14 for 24, 24 for 14).
TimesRateSwapped(a, pct) == (a * (38 - pct)) \div 100

\* subtotal * 0.14, subtotal * 0.24
TimesRate(a, pct) == (a * pct) \div 100

\* Cutting the digits after the second decimal instead of rounding.
Fmt2Truncate(a) == a \div 100

\* f"{a:.2f}": the nearest cent, ties to even.
Fmt2(a) ==
    LET q == a \div 100
        r == a % 100
    IN  IF r > 50 \/ (r = 50 /\ q % 2 = 1) THEN q + 1 ELSE q

subtotal_14 == Eur(250) + Eur(189) + Eur(320)

subtotal_24 == Eur(499) + Eur(850)

total_subtotal == subtotal_14 + subtotal_24

tax_14 == TimesRate(subtotal_14, 14)

total_14 == subtotal_14 + tax_14

tax_24 == TimesRate(subtotal_24, 24)

total_24 == subtotal_24 + tax_24

total_tax == tax_14 + tax_24

\* A grand total that leaves out the tax of the 14% bucket.
grand_total_one_bucket == total_subtotal + tax_24

grand_total == total_subtotal + total_tax

----------------------------------------------------------------------------
\* Statements

\* A text argument: its label and, when it shows an amount, the cents shown.
Lit(s) == [lit |-> s, amt |-> 0 - 1]

Amt(s, cents) == [lit |-> s, amt |-> cents]

\* y_position = draw_text(text, x, y_position, font)
Ln(t, x, f) == [op |-> "line", text |-> t, x |-> x, font |-> f]

\* draw_text(text, x, y_position + 5, font_small), result discarded
Cell(t, x) == [op |-> "cell", text |-> t, x |-> x, dy |-> 5, font |-> "font_small"]

\* y_position += n
Adv(n) == [op |-> "advance", n |-> n]

\* draw.rectangle([x0, y_position, x1, y_position + h], ...)
Rect(x0, x1, h, outline, fill, w) ==
    [op |-> "rectangle", x0 |-> x0, x1 |-> x1, h |-> h,
     outline |-> outline, fill |-> fill, width |-> w]

\* draw.line([x0, y_position + dy0, x1, y_position + dy1], fill=(0,0,0), width=1)
Line(x0, dy0, x1, dy1) ==
    [op |-> "drawline", x0 |-> x0, dy0 |-> dy0, x1 |-> x1, dy1 |-> dy1,
     fill |-> <<0, 0, 0>>, width |-> 1]

Prologue ==
    << [op |-> "truetype", var |-> "font_large", size |-> 16],
       [op |-> "truetype", var |-> "font_medium", size |-> 14],
       [op |-> "truetype", var |-> "font_small", size |-> 12],
       [op |-> "y_init", y |-> 30] >>

\* Index of the first statement after the try/except.
AfterTry == 3 + 1

Epilogue(n) == << [op |-> "save"] >> \o [i \in 1..n |-> [op |-> "print", i |-> i]]

\* The three single-rate receipts differ only in their labels.
Plain(street, city, date, time, receipt, items, i1, i2, i3, i4, sub, vat, total, pay, thanks) ==
    << Ln(Lit("SUPERMARKET ABC"), 120, "font_large"),
       Ln(Lit(street), 130, "font_small"),
       Ln(Lit(city), 150, "font_small"),
       Adv(10),
       Ln(Lit(date), 50, "font_medium"),
       Ln(Lit(time), 50, "font_medium"),
       Ln(Lit(receipt), 50, "font_medium"),
       Adv(10),
       Ln(Lit(items), 50, "font_medium"),
       Ln(Amt(i1, 250), 50, "font_small"),
       Ln(Amt(i2, 189), 50, "font_small"),
       Ln(Amt(i3, 320), 50, "font_small"),
       Ln(Amt(i4, 499), 50, "font_small"),
       Adv(10),
       Ln(Amt(sub, 1258), 50, "font_medium"),
       Adv(10),
       Ln(Amt(vat, 302), 50, "font_medium"),
       Adv(10),
       Ln(Amt(total, 1560), 50, "font_medium"),
       Adv(10),
       Ln(Lit(pay), 50, "font_medium"),
       Adv(10),
       Ln(Lit(thanks), 150, "font_medium") >>

Body_fi ==
    Plain("123 Paakatu", "Helsinki, FI", "Paivamaara: 2026-01-02",
          "Aika: 13:30:15", "Kuitti nro 001234", "Tuotteet:", "Leipa",
          "Maito 1L", "Omenat 1kg", "Kahvi", "Valisumma:", "ALV 24%:",
          "YHTEENSA:", "Maksutapa: KORTTI", "Kiitos!")

Body_de ==
    Plain("123 Hauptstrasse", "Berlin, DE", "Datum: 2026-01-02",
          "Uhrzeit: 13:30:15", "Rechnung Nr. 001234", "Artikel:", "Brot",
          "Milch 1L", "Aepfel 1kg", "Kaffee", "Zwischensumme:", "MWST 24%:",
          "GESAMT:", "Zahlung: KARTE", "Vielen Dank!")

Body_sv ==
    Plain("123 Huvudgatan", "Stockholm, SE", "Datum: 2026-01-02",
          "Tid: 13:30:15", "Kvitto nr 001234", "Varor:", "Brod",
          "Mjolk 1L", "Applen 1kg", "Kaffe", "Delsumma:", "MOMS 24%:",
          "TOTALT:", "Betalning: KORT", "Tack!")

----------------------------------------------------------------------------
\* Tax breakdown tables

header_bg == <<240, 240, 240>>

table_width == 320

table_x_start == 40

table_x_end == table_x_start + table_width

\* The line height of text rows used as the row height of the table.
row_height_is_line_height == 25 - 5

row_height == 25

table_height == 25 + (row_height * 2) + 5

None == <<>>

Mark == [op |-> "table_y_start"]

HeaderCells ==
    << Cell(Lit("Tax rate"), 50), Cell(Lit("Tax"), 130),
       Cell(Lit("Subtotal"), 200), Cell(Lit("Total"), 280) >>

\* One data row: rate label, tax, subtotal and total, each formatted.
DataCells(rate, tax, sub, total) ==
    << Cell(Lit(rate), 50), Cell(Amt("", tax), 130),
       Cell(Amt("", sub), 200), Cell(Amt("", total), 280) >>

Header_en(receipt) ==
    << Ln(Lit("SUPERMARKET ABC"), 120, "font_large"),
       Ln(Lit("123 Main Street"), 130, "font_small"),
       Ln(Lit("Helsinki, FI"), 150, "font_small"),
       Adv(10),
       Ln(Lit("Date: 2026-01-02"), 50, "font_medium"),
       Ln(Lit("Time: 13:30:15"), 50, "font_medium"),
       Ln(Lit(receipt), 50, "font_medium"),
       Adv(10),
       Ln(Lit("Items:"), 50, "font_medium"),
       Ln(Amt("Bread", 250), 50, "font_small"),
       Ln(Amt("Milk 1L", 189), 50, "font_small"),
       Ln(Amt("Apples 1kg", 320), 50, "font_small"),
       Ln(Amt("Coffee", 499), 50, "font_small") >>

Footer_en ==
    << Adv(10),
       Ln(Lit("Payment: CARD"), 50, "font_medium"),
       Adv(10),
       Ln(Lit("Thank you!"), 150, "font_medium") >>

Body_v2 ==
    Header_en("Receipt # 001234") \o
    << Adv(10),
       Ln(Amt("Subtotal:", 1258), 50, "font_medium"),
       Adv(10),
       Adv(5),
       Mark,
       Rect(table_x_start, table_x_end, 50, <<0, 0, 0>>, None, 2),
       Rect(table_x_start, table_x_end, 25, None, header_bg, 1) >> \o
    HeaderCells \o
    << Line(120, 0, 120, 50),
       Line(190, 0, 190, 50),
       Line(270, 0, 270, 50),
       Line(table_x_start, 25, table_x_end, 25),
       Adv(25) >> \o
    DataCells("14%", 176, 1258, 1434) \o
    << Adv(30),
       Ln(Amt("TOTAL:", 1434), 50, "font_medium") >> \o
    Footer_en

Body_v3 ==
    Header_en("Receipt # 001235") \o
    << Ln(Amt("Wine 750ml", 850), 50, "font_small"),
       Adv(10),
       Ln(Amt("Subtotal:", Fmt2(total_subtotal)), 50, "font_medium"),
       Adv(10),
       Adv(5),
       Mark,
       Rect(table_x_start, table_x_end, table_height, <<0, 0, 0>>, None, 2),
       Rect(table_x_start, table_x_end, row_height, None, header_bg, 1) >> \o
    HeaderCells \o
    << Line(120, 0, 120, table_height),
       Line(190, 0, 190, table_height),
       Line(270, 0, 270, table_height),
       Line(table_x_start, row_height, table_x_end, row_height),
       Adv(row_height) >> \o
    DataCells("14%", Fmt2(tax_14), Fmt2(subtotal_14), Fmt2(total_14)) \o
    << Line(table_x_start, row_height, table_x_end, row_height),
       Adv(row_height) >> \o
    DataCells("24%", Fmt2(tax_24), Fmt2(subtotal_24), Fmt2(total_24)) \o
    << Adv(row_height + 5),
       Adv(5),
       Ln(Amt("Total Tax:", Fmt2(total_tax)), 50, "font_medium"),
       Ln(Amt("TOTAL:", Fmt2(grand_total)), 50, "font_medium") >> \o
    Footer_en

Body(s) == CASE s = "fi" -> Body_fi
             [] s = "de" -> Body_de
             [] s = "sv" -> Body_sv
             [] s = "v2" -> Body_v2
             [] s = "v3" -> Body_v3

\* Number of print calls after img.save.
Prints(s) == IF s = "v3" THEN 4 ELSE 1

Prog(s) == Prologue \o Body(s) \o Epilogue(Prints(s))

\* The message of the i-th print call.
Message(s, i) ==
    CASE i = 1 -> [lit |-> "saved to", amts |-> <<>>]
      [] i = 2 -> [lit |-> "14% tax rate",
                   amts |-> <<Fmt2(subtotal_14), Fmt2(tax_14), Fmt2(total_14)>>]
      [] i = 3 -> [lit |-> "24% tax rate",
                   amts |-> <<Fmt2(subtotal_24), Fmt2(tax_24), Fmt2(total_24)>>]
      [] i = 4 -> [lit |-> "Grand Total",
                   amts |-> <<Fmt2(total_subtotal), Fmt2(total_tax), Fmt2(grand_total)>>]

----------------------------------------------------------------------------
\* Drawing surface

\* draw.text((x, y), text, fill=color, font=font).  The log also keeps how
\* draw_text was called: by is "line" when its result is assigned to
\* y_position and "cell" when it is discarded, row is the number of
\* assignments made to y_position before the call.
TextOp(text, x, y, font, color, by, row) ==
    [op |-> "text", text |-> text, x |-> x, y |-> y, font |-> font,
     fill |-> color, by |-> by, row |-> row]

RectangleOp(x0, y0, x1, y1, outline, fill, w) ==
    [op |-> "rectangle", x0 |-> x0, y0 |-> y0, x1 |-> x1, y1 |-> y1,
     outline |-> outline, fill |-> fill, width |-> w]

LineOp(x0, y0, x1, y1, fill, w) ==
    [op |-> "line", x0 |-> x0, y0 |-> y0, x1 |-> x1, y1 |-> y1,
     fill |-> fill, width |-> w]

\* Other line heights draw_text could return.
draw_text_half(y) == y + 10

draw_text_double(y) == y + 40

draw_text_row(y) == y + 25

\* The value draw_text returns.
draw_text(y) == y + 20

----------------------------------------------------------------------------
\* State machine

Init ==
    /\ script \in Scripts
    /\ pc = 1
    /\ fonts = no_fonts
    /\ y_position = 0
    /\ table_y_start = 0
    /\ cursor_writes = 0
    /\ ops = <<>>
    /\ font_error = FALSE
    /\ save_calls = 0
    /\ saved = FALSE
    /\ printed = <<>>
    /\ status = "running"
    /\ run = 1
    /\ prev_ops = <<>>
    /\ prev_font_error = FALSE

Stmt == Prog(script)[pc]

At(kind) ==
    /\ status = "running"
    /\ pc <= Len(Prog(script))
    /\ Stmt.op = kind

\* ImageFont.truetype(...) returns a font.
TruetypeLoads ==
    /\ At("truetype")
    /\ fonts' = [fonts EXCEPT ![Stmt.var] = truetype(Stmt.size)]
    /\ pc' = pc + 1
    /\ UNCHANGED <<script, y_position, table_y_start, cursor_writes, ops,
                   font_error, save_calls, saved, printed, status, run,
                   prev_ops, prev_font_error>>

\* ImageFont.truetype(...) raises: the bare except runs and the script goes on.
TruetypeRaises ==
    /\ At("truetype")
    /\ fonts' = except_fonts(fonts)
    /\ font_error' = TRUE
    /\ pc' = AfterTry
    /\ UNCHANGED <<script, y_position, table_y_start, cursor_writes, ops,
                   save_calls, saved, printed, status, run, prev_ops,
                   prev_font_error>>

\* y_position = 30
SetCursor ==
    /\ At("y_init")
    /\ y_position' = Stmt.y
    /\ cursor_writes' = cursor_writes + 1
    /\ pc' = pc + 1
    /\ UNCHANGED <<script, fonts, table_y_start, ops, font_error, save_calls,
                   saved, printed, status, run, prev_ops, prev_font_error>>

\* y_position = draw_text(text, x, y_position, font)
DrawTextLine ==
    /\ At("line")
    /\ ops' = Append(ops, TextOp(Stmt.text, Stmt.x, y_position,
                                 fonts[Stmt.font], TEXT_COLOR, Stmt.op,
                                 cursor_writes))
    /\ y_position' = draw_text(y_position)
    /\ cursor_writes' = cursor_writes + 1
    /\ pc' = pc + 1
    /\ UNCHANGED <<script, fonts, table_y_start, font_error, save_calls,
                   saved, printed, status, run, prev_ops, prev_font_error>>

\* draw_text(text, x, y_position + 5, font_small): the result is discarded.
DrawTextCell ==
    /\ At("cell")
    /\ ops' = Append(ops, TextOp(Stmt.text, Stmt.x, y_position + Stmt.dy,
                                 fonts[Stmt.font], TEXT_COLOR, Stmt.op,
                                 cursor_writes))
    /\ pc' = pc + 1
    /\ UNCHANGED <<script, fonts, y_position, table_y_start, cursor_writes,
                   font_error, save_calls, saved, printed, status, run,
                   prev_ops, prev_font_error>>

\* y_position += n
Advance ==
    /\ At("advance")
    /\ y_position' = y_position + Stmt.n
    /\ cursor_writes' = cursor_writes + 1
    /\ pc' = pc + 1
    /\ UNCHANGED <<script, fonts, table_y_start, ops, font_error, save_calls,
                   saved, printed, status, run, prev_ops, prev_font_error>>

\* table_y_start = y_position
MarkTable ==
    /\ At("table_y_start")
    /\ table_y_start' = y_position
    /\ pc' = pc + 1
    /\ UNCHANGED <<script, fonts, y_position, cursor_writes, ops, font_error,
                   save_calls, saved, printed, status, run, prev_ops,
                   prev_font_error>>

DrawRectangle ==
    /\ At("rectangle")
    /\ ops' = Append(ops, RectangleOp(Stmt.x0, y_position, Stmt.x1,
                                      y_position + Stmt.h, Stmt.outline,
                                      Stmt.fill, Stmt.width))
    /\ pc' = pc + 1
    /\ UNCHANGED <<script, fonts, y_position, table_y_start, cursor_writes,
                   font_error, save_calls, saved, printed, status, run,
                   prev_ops, prev_font_error>>

DrawLine ==
    /\ At("drawline")
    /\ ops' = Append(ops, LineOp(Stmt.x0, y_position + Stmt.dy0, Stmt.x1,
                                 y_position + Stmt.dy1, Stmt.fill, Stmt.width))
    /\ pc' = pc + 1
    /\ UNCHANGED <<script, fonts, y_position, table_y_start, cursor_writes,
                   font_error, save_calls, saved, printed, status, run,
                   prev_ops, prev_font_error>>

\* An exception that is swallowed leaves the run going.
uncaught_is_ignored == "running"

\* What an exception nothing catches does to the run.
uncaught == "failed"

\* img.save(output_path) writes the file.
SaveOk ==
    /\ At("save")
    /\ save_calls' = save_calls + 1
    /\ saved' = TRUE
    /\ pc' = pc + 1
    /\ UNCHANGED <<script, fonts, y_position, table_y_start, cursor_writes,
                   ops, font_error, printed, status, run, prev_ops,
                   prev_font_error>>

\* img.save(output_path) raises: nothing catches it.
SaveRaises ==
    /\ At("save")
    /\ save_calls' = save_calls + 1
    /\ status' = uncaught
    /\ UNCHANGED <<script, pc, fonts, y_position, table_y_start,
                   cursor_writes, ops, font_error, saved, printed, run,
                   prev_ops, prev_font_error>>

PrintMessage ==
    /\ At("print")
    /\ printed' = Append(printed, Message(script, Stmt.i))
    /\ pc' = pc + 1
    /\ UNCHANGED <<script, fonts, y_position, table_y_start, cursor_writes,
                   ops, font_error, save_calls, saved, status, run, prev_ops,
                   prev_font_error>>

\* The end of the file is reached.
Exit ==
    /\ status = "running"
    /\ pc = Len(Prog(script)) + 1
    /\ status' = "done"
    /\ UNCHANGED <<script, pc, fonts, y_position, table_y_start,
                   cursor_writes, ops, font_error, save_calls, saved, printed,
                   run, prev_ops, prev_font_error>>

\* The same script is started again in a fresh process.
RunAgain ==
    /\ status \in {"done", "failed"}
    /\ run < MaxRuns
    /\ run' = run + 1
    /\ prev_ops' = ops
    /\ prev_font_error' = font_error
    /\ pc' = 1
    /\ fonts' = no_fonts
    /\ y_position' = 0
    /\ table_y_start' = 0
    /\ cursor_writes' = 0
    /\ ops' = <<>>
    /\ font_error' = FALSE
    /\ save_calls' = 0
    /\ saved' = FALSE
    /\ printed' = <<>>
    /\ status' = "running"
    /\ UNCHANGED script

Next ==
    \/ TruetypeLoads
    \/ TruetypeRaises
    \/ SetCursor
    \/ DrawTextLine
    \/ DrawTextCell
    \/ Advance
    \/ MarkTable
    \/ DrawRectangle
    \/ DrawLine
    \/ SaveOk
    \/ SaveRaises
    \/ PrintMessage
    \/ Exit
    \/ RunAgain

Spec == Init /\ [][Next]_vars

\* One step of the running script: the interpreter never stops half way.
Step ==
    \/ TruetypeLoads \/ TruetypeRaises \/ SetCursor \/ DrawTextLine
    \/ DrawTextCell \/ Advance \/ MarkTable \/ DrawRectangle \/ DrawLine
    \/ SaveOk \/ SaveRaises \/ PrintMessage \/ Exit

----------------------------------------------------------------------------
TypeOK ==
    /\ script \in Scripts
    /\ pc \in 1..(Len(Prog(script)) + 1)
    /\ status \in {"running", "done", "failed"}
    /\ run \in 1..MaxRuns

FairSpec == Spec /\ WF_vars(Step)

----------------------------------------------------------------------------
\* Reading the drawing log

TextOps == {i \in 1..Len(ops) : ops[i].op = "text"}

\* Every drawing statement of the script has been executed.
Drawn == pc > Len(Prologue) + Len(Body(script))

\* Amounts shown by text lines with the given label.
LineAmts(lit) ==
    {ops[i].text.amt : i \in {j \in TextOps : ops[j].text.lit = lit}}

\* Amounts shown in column x of the table row whose first cell is rate.
CellAmts(rate, x) ==
    {ops[j].text.amt : j \in {k \in TextOps :
        /\ ops[k].x = x
        /\ \E i \in TextOps : /\ ops[i].text.lit = rate
                              /\ ops[i].row = ops[k].row}}

RatePct(lit) == CASE lit = "14%" -> 14
                  [] lit \in {"24%", "ALV 24%:", "MWST 24%:", "MOMS 24%:"} -> 24

\* c cents is a nearest cent to u units of 1/10000 euro.
NearestCent(u, c) == Abs(u - 100 * c) <= 50

\* tax and total, in cents, are right for subtotal sub at rate pct.
BucketOK(pct, sub, tax, total) ==
    /\ NearestCent(sub * pct, tax)
    /\ total = sub + tax

SubtotalLabel(vat) == CASE vat = "ALV 24%:" -> "Valisumma:"
                        [] vat = "MWST 24%:" -> "Zwischensumme:"
                        [] vat = "MOMS 24%:" -> "Delsumma:"

TotalLabel(vat) == CASE vat = "ALV 24%:" -> "YHTEENSA:"
                     [] vat = "MWST 24%:" -> "GESAMT:"
                     [] vat = "MOMS 24%:" -> "TOTALT:"

----------------------------------------------------------------------------
\* C1: every tax bucket shown on a receipt (a data row of a tax breakdown
\* table, or the VAT line of a single-rate receipt with its subtotal and
\* total lines) shows tax = subtotal * rate rounded to the cent and
\* total = subtotal + that rounded tax.
C1_BucketsConsistent ==
    /\ \A rate \in {"14%", "24%"} :
         \A tax \in CellAmts(rate, 130), sub \in CellAmts(rate, 200),
            total \in CellAmts(rate, 280) :
              BucketOK(RatePct(rate), sub, tax, total)
    /\ \A vat \in {"ALV 24%:", "MWST 24%:", "MOMS 24%:"} :
         \A tax \in LineAmts(vat), sub \in LineAmts(SubtotalLabel(vat)),
            total \in LineAmts(TotalLabel(vat)) :
              BucketOK(RatePct(vat), sub, tax, total)

C1_Witness ==
    /\ script = "v3"
    /\ CellAmts("14%", 280) # {}
    /\ CellAmts("24%", 280) # {}
    /\ CellAmts("24%", 130) # {}

\* C2: on the v3 receipt the grand total shown is within one cent of the sum
\* of the bucket totals shown, and within one cent of the sum of the bucket
\* subtotals shown plus the sum of the bucket taxes shown.
C2_GrandTotal ==
    script = "v3" =>
      \A g \in LineAmts("TOTAL:") :
        /\ \A t14 \in CellAmts("14%", 280), t24 \in CellAmts("24%", 280) :
             Abs(g - (t14 + t24)) <= 1
        /\ \A s14 \in CellAmts("14%", 200), s24 \in CellAmts("24%", 200),
              x14 \in CellAmts("14%", 130), x24 \in CellAmts("24%", 130) :
             Abs(g - ((s14 + s24) + (x14 + x24))) <= 1

C2_Witness ==
    /\ script = "v3"
    /\ LineAmts("TOTAL:") # {}
    /\ CellAmts("14%", 280) # {}
    /\ CellAmts("24%", 280) # {}

\* C3: the v3 receipt and the v3 summary messages show the reference values:
\* 7.59 / 1.06 / 8.65 at 14%, 13.49 / 3.24 / 16.73 at 24%, and 21.08 / 4.30 /
\* 25.38 as grand totals.
C3_ReferenceValues ==
    script = "v3" =>
      /\ CellAmts("14%", 200) \subseteq {759}
      /\ CellAmts("14%", 130) \subseteq {106}
      /\ CellAmts("14%", 280) \subseteq {865}
      /\ CellAmts("24%", 200) \subseteq {1349}
      /\ CellAmts("24%", 130) \subseteq {324}
      /\ CellAmts("24%", 280) \subseteq {1673}
      /\ LineAmts("Subtotal:") \subseteq {2108}
      /\ LineAmts("Total Tax:") \subseteq {430}
      /\ LineAmts("TOTAL:") \subseteq {2538}
      /\ Len(printed) >= 2 => printed[2].amts = <<759, 106, 865>>
      /\ Len(printed) >= 3 => printed[3].amts = <<1349, 324, 1673>>
      /\ Len(printed) >= 4 => printed[4].amts = <<2108, 430, 2538>>

C3_Witness ==
    /\ script = "v3"
    /\ status = "done"
    /\ Len(printed) = 4
    /\ LineAmts("TOTAL:") = {2538}
    /\ CellAmts("24%", 130) = {324}

----------------------------------------------------------------------------
\* Two text operations belong to the same row: cells drawn without the
\* cursor being assigned in between.
SameRow(i, j) == ops[i].row = ops[j].row

\* C4: rows are drawn top to bottom and do not overlap: the cells of one
\* table line share one y, and a text drawn in a later row lies strictly
\* below every earlier row, at or below the end of its extent
\* [y, y + font height).
C4_RowsMonotone ==
    \A i, j \in TextOps :
      i < j =>
        IF SameRow(i, j)
        THEN ops[i].y = ops[j].y
        ELSE /\ ops[i].y < ops[j].y
             /\ ops[i].y + FontHeight(ops[i].font) <= ops[j].y

C4_Witness ==
    /\ script = "v3"
    /\ Drawn
    /\ \E i, j \in TextOps : i < j /\ SameRow(i, j)
    /\ \E i, j \in TextOps : i < j /\ ops[i].by = "cell" /\ ops[j].by = "line"

\* C5 as stated: whenever a script has been run before, the drawing
\* operations of this run equal those of the previous run.
C5_Original == (run > 1 /\ Drawn) => ops = prev_ops

\* C5 (amended): two runs of a script in which font loading had the same
\* outcome (both loaded the TrueType fonts, or both fell back, whichever load
\* raised) issue the same sequence of drawing operations with the same
\* arguments.
C5_Deterministic ==
    (run > 1 /\ Drawn /\ font_error = prev_font_error) => ops = prev_ops

C5_Witness ==
    /\ run > 1
    /\ Drawn
    /\ font_error
    /\ prev_font_error
    /\ Len(ops) > 0
    /\ ops = prev_ops

\* C6: the canvas contains what is drawn: every text is placed at
\* 0 <= x < WIDTH and 0 <= y with y + 20 <= HEIGHT, every rectangle and line
\* has its end points in [0, WIDTH) x [0, HEIGHT), and the cursor never
\* exceeds HEIGHT.
C6_InsideCanvas ==
    /\ \A i \in 1..Len(ops) :
         IF ops[i].op = "text"
         THEN /\ 0 <= ops[i].x /\ ops[i].x < WIDTH
              /\ 0 <= ops[i].y /\ ops[i].y + 20 <= HEIGHT(script)
         ELSE /\ 0 <= ops[i].x0 /\ ops[i].x0 < WIDTH
              /\ 0 <= ops[i].x1 /\ ops[i].x1 < WIDTH
              /\ 0 <= ops[i].y0 /\ ops[i].y0 < HEIGHT(script)
              /\ 0 <= ops[i].y1 /\ ops[i].y1 < HEIGHT(script)
    /\ y_position <= HEIGHT(script)

C6_Witness ==
    /\ script = "v3"
    /\ status = "done"
    /\ y_position = 520
    /\ \E i \in 1..Len(ops) : ops[i].op = "rectangle" /\ ops[i].y1 = 415
    /\ \E i \in 1..Len(ops) : ops[i].op = "line"

\* A step in which draw_text draws.
TextDrawn ==
    /\ Len(ops') = Len(ops) + 1
    /\ ops'[Len(ops')].op = "text"

\* C7 as stated: every call of draw_text advances the cursor by 20.
C7_Original == [][TextDrawn => y_position' = y_position + 20]_vars

\* C7 (amended): draw_text draws at the y it is given and returns y + 20; a
\* text line outside a table is drawn at the cursor and the result is
\* assigned, so the cursor advances by exactly 20; a table cell is drawn at
\* cursor + 5 and the result is discarded, so the cursor does not move.
C7_CursorAdvance ==
    [][TextDrawn =>
         IF ops'[Len(ops')].by = "line"
         THEN /\ ops'[Len(ops')].y = y_position
              /\ y_position' = y_position + 20
         ELSE /\ ops'[Len(ops')].y = y_position + 5
              /\ y_position' = y_position]_vars

C7_Witness ==
    /\ Len(ops) > 1
    /\ ops[Len(ops)].op = "text"
    /\ ops[Len(ops)].by = "cell"
    /\ ops[Len(ops)].y = y_position + 5
    /\ \E i \in TextOps : ops[i].by = "line" /\ ops[i].y + 20 <= y_position

----------------------------------------------------------------------------
\* Reading the table out of the drawing log

CellOps == {i \in TextOps : ops[i].by = "cell"}

\* The row identifiers of the table lines drawn so far.
TableRows == {ops[i].row : i \in CellOps}

\* The outer border is the rectangle drawn with an outline.
Borders == {i \in 1..Len(ops) : ops[i].op = "rectangle" /\ ops[i].outline # None}

\* The horizontal separators.
Separators == {i \in 1..Len(ops) : ops[i].op = "line" /\ ops[i].y0 = ops[i].y1}

\* The last text drawn before operation k.
LastTextBefore(k) ==
    LET before == {i \in TextOps : i < k}
    IN  CHOOSE i \in before : \A j \in before : j <= i

\* The first assignment to the cursor after the cells of a table line.
RowAdvance ==
    /\ \E i \in CellOps : ops[i].row = cursor_writes
    /\ ops' = ops
    /\ cursor_writes' = cursor_writes + 1

\* After this step no table line remains to be drawn.
LastRow == \A k \in (pc + 1)..Len(Prog(script)) : Prog(script)[k].op # "cell"

\* Cells of consecutive table lines are 25 pixels apart.
RowsSpaced ==
    \A i, j \in CellOps :
      (ops[i].row < ops[j].row
         /\ ~ \E k \in CellOps : ops[i].row < ops[k].row /\ ops[k].row < ops[j].row)
      => ops[j].y = ops[i].y + 25

\* Each separator lies 25 pixels below the top of the line drawn before it
\* (cells are drawn 5 pixels below the top of their line).
SeparatorsPlaced ==
    \A k \in Separators : ops[k].y0 = (ops[LastTextBefore(k)].y - 5) + 25

\* The border starts at the top of the header line.
BorderTop ==
    \A b \in Borders : \A i \in CellOps :
      (\A j \in CellOps : ops[i].row <= ops[j].row) => ops[b].y0 = ops[i].y - 5

\* C8 as stated: every table line advances the cursor by 25, lines are 25
\* apart, separators lie 25 below the top of their line, and the border
\* encloses exactly the lines of the table.
C8_Original ==
    /\ [][RowAdvance => y_position' = y_position + 25]_vars
    /\ [](RowsSpaced /\ SeparatorsPlaced /\ BorderTop)
    /\ [](Drawn => \A b \in Borders :
                     ops[b].y1 - ops[b].y0 = 25 * Cardinality(TableRows))

\* C8 (amended): the header line and every data line but the last advance
\* the cursor by exactly 25 and the last data line by 30 (the row height plus
\* 5 of spacing); the cells of consecutive table lines are 25 pixels apart;
\* each separator lies 25 pixels below the top of its line; the border starts
\* at the top of the header line and is 25 pixels per line high, plus 5
\* pixels of spacing in v3 (50 in v2, 80 in v3).
C8_TableRows ==
    /\ [][RowAdvance => y_position' = y_position + (IF LastRow THEN 30 ELSE 25)]_vars
    /\ [](RowsSpaced /\ SeparatorsPlaced /\ BorderTop)
    /\ [](Drawn => \A b \in Borders :
                     ops[b].y1 - ops[b].y0 =
                       25 * Cardinality(TableRows) + (IF script = "v3" THEN 5 ELSE 0))

C8_Witness ==
    /\ script = "v3"
    /\ Drawn
    /\ Cardinality(TableRows) = 3
    /\ Cardinality(Separators) = 2
    /\ \E b \in Borders : ops[b].y1 - ops[b].y0 = 80

----------------------------------------------------------------------------
\* The number of draw_text calls in the script.
TextStatements ==
    Cardinality({k \in 1..Len(Prog(script)) : Prog(script)[k].op \in {"line", "cell"}})

\* C9: a font that fails to load is not an error of the run: the script goes
\* on with font_large, font_medium and font_small all bound to the built-in
\* font, every text it draws uses that font, and it goes on to draw every
\* row and to call img.save.
C9_FontFallback ==
    /\ [](font_error =>
            /\ fonts = [font_large |-> load_default, font_medium |-> load_default,
                        font_small |-> load_default]
            /\ \A i \in TextOps : ops[i].font = load_default
            /\ status = "failed" => save_calls = 1)
    /\ (font_error ~>
          (font_error /\ save_calls = 1 /\ Cardinality(TextOps) = TextStatements))

C9_Witness ==
    /\ font_error
    /\ save_calls = 1
    /\ Cardinality(TextOps) = TextStatements
    /\ fonts.font_large = load_default

\* C10: img.save is called at most once in a run; when it raises, the run
\* ends there with that error, nothing has been printed and nothing is
\* printed; a message is printed only after the one call of img.save has
\* returned.
C10_SaveFatal ==
    /\ save_calls <= 1
    /\ status = "failed" =>
         /\ save_calls = 1
         /\ ~saved
         /\ printed = <<>>
         /\ Prog(script)[pc].op = "save"
    /\ printed # <<>> => (saved /\ save_calls = 1)
    /\ status = "done" => (saved /\ Len(printed) = Prints(script))

C10_Witness ==
    /\ status = "failed"
    /\ save_calls = 1
    /\ printed = <<>>
    /\ Drawn

====
